---- MODULE Spec2Model ----
(***************************************************************************)
(* Model of the safety validation subsystem of claude-mac-manager:         *)
(*   safety/protected_paths.py  (Layer 1: pattern classification)          *)
(*   safety/validator.py        (Layers 2-6: DeletionValidator)            *)
(* Paths and patterns are strings, exactly as in the source; the string    *)
(* operations of the code (startswith, replace, split, expanduser) are     *)
(* modelled character by character.                                        *)
(***************************************************************************)
EXTENDS Integers, Sequences, FiniteSets, TLC

VARIABLES
    dry_run,               \* DeletionValidator.dry_run
    require_confirmation,  \* DeletionValidator.require_confirmation
    symlinks,              \* environment: the symbolic links present on disk
    dbstat,                \* environment: state of the registry's database file
    denied,                \* environment: nodes whose permission bits are 000
    envsteps,              \* number of environment changes so far
    last,                  \* the last API call and what it delivered
    threads,               \* the calls running concurrently, by thread
    cells                  \* the ValidationResult objects those calls build

vars == <<dry_run, require_confirmation, symlinks, dbstat, denied, envsteps, last,
          threads, cells>>

-----------------------------------------------------------------------------
(* String helpers (Python str methods)                                     *)

\* str.startswith
StartsWith(s, p) == Len(p) <= Len(s) /\ SubSeq(s, 1, Len(p)) = p

\* the `in` operator on strings
Contains(s, sub) ==
    \E i \in 1..(Len(s) - Len(sub) + 1) : SubSeq(s, i, i + Len(sub) - 1) = sub

\* str.split("/") : keeps empty fields
RECURSIVE SplitFrom(_, _, _)
SplitFrom(s, i, cur) ==
    IF i > Len(s) THEN <<cur>>
    ELSE IF SubSeq(s, i, i) = "/" THEN <<cur>> \o SplitFrom(s, i + 1, "")
    ELSE SplitFrom(s, i + 1, cur \o SubSeq(s, i, i))

Split(s) == SplitFrom(s, 1, "")

\* "/".join(segs)
RECURSIVE Join(_)
Join(segs) ==
    IF segs = <<>> THEN ""
    ELSE IF Len(segs) = 1 THEN segs[1]
    ELSE segs[1] \o "/" \o Join(Tail(segs))

\* str.replace(old, "") : every non-overlapping occurrence, left to right
RECURSIVE RemoveAll(_, _, _)
RemoveAll(s, old, i) ==
    IF i > Len(s) THEN ""
    ELSE IF i + Len(old) - 1 <= Len(s) /\ SubSeq(s, i, i + Len(old) - 1) = old
         THEN RemoveAll(s, old, i + Len(old))
         ELSE SubSeq(s, i, i) \o RemoveAll(s, old, i + 1)

\* str.rstrip("/")
RECURSIVE RStripSlash(_)
RStripSlash(s) ==
    IF Len(s) > 0 /\ SubSeq(s, Len(s), Len(s)) = "/"
    THEN RStripSlash(SubSeq(s, 1, Len(s) - 1))
    ELSE s

-----------------------------------------------------------------------------
(* The two fixed pattern lists                                             *)

PROTECTED_PATHS == <<
    "/System/**", "/bin/**", "/sbin/**", "/usr/bin/**", "/usr/sbin/**",
    "/usr/lib/**", "/private/var/vm/**",
    "~/Documents/**", "~/Desktop/**", "~/Downloads/**", "~/Pictures/**",
    "~/Movies/**", "~/Music/**",
    "**/.git/**", "**/.github/**", "**/.gitlab/**", "**/LICENSE", "**/README.md",
    "/Applications/**", "~/Library/Application Support/**",
    "/etc/**", "/Library/**", "~/.ssh/**", "~/.gnupg/**", "~/.aws/**", "~/.config/**",
    "**/data/**", "**/database/**", "**/db/**", "**/backup/**", "**/backups/**",
    "/Users/Shared/_claude_mac_manager/data/**",
    "/Users/Shared/_claude_mac_manager/config/**",
    "/Users/Shared/_claude_mac_manager/CLAUDE.md",
    "/Users/Shared/_claude_mac_manager/README.md" >>

DELETABLE_PATTERNS == <<
    "**/node_modules/**", "~/.npm/_npx/**", "~/.npm/_cacache/**",
    "**/.venv/**", "**/venv/**", "**/env/**", "**/__pycache__/**",
    "**/*.pyc", "**/*.pyo", "**/.pytest_cache/**", "**/.mypy_cache/**",
    "**/.ruff_cache/**",
    "**/vendor/bundle/**", "~/.gem/cache/**",
    "**/target/debug/**", "**/target/release/**",
    "~/.cache/go-build/**", "**/pkg/mod/**",
    "**/dist/**", "**/build/**", "**/.next/**", "**/.nuxt/**",
    "**/.DS_Store", "**/.localized",
    "**/*.log", "**/logs/**", "**/_logs/**",
    "**/tmp/**", "**/temp/**", "**/.tmp/**", "**/cache/**", "**/.cache/**",
    "**/.vscode/cache/**", "**/.idea/cache/**" >>

-----------------------------------------------------------------------------
(* pathspec 'gitwildmatch': a pattern is compiled to a regular expression  *)
(* that is matched against the file with its leading "/" removed.  The     *)
(* regular expression works segment by segment, so it is modelled on the   *)
(* lists of segments.                                                      *)

\* one segment against a segment glob: "*" is [^/]*, everything else literal
RECURSIVE SegGlob(_, _)
SegGlob(pat, seg) ==
    IF pat = "" THEN seg = ""
    ELSE IF SubSeq(pat, 1, 1) = "*"
         THEN \E k \in 0..Len(seg) :
                 SegGlob(SubSeq(pat, 2, Len(pat)), SubSeq(seg, k + 1, Len(seg)))
         ELSE /\ seg # ""
              /\ SubSeq(pat, 1, 1) = SubSeq(seg, 1, 1)
              /\ SegGlob(SubSeq(pat, 2, Len(pat)), SubSeq(seg, 2, Len(seg)))

\* the normalisation of the pattern's segments before the regex is built
PatternSegs(pattern) ==
    LET s0 == Split(pattern)
        s1 == IF s0[1] = "" THEN Tail(s0)
              ELSE IF (Len(s0) = 1 \/ (Len(s0) = 2 /\ s0[2] = "")) /\ s0[1] # "**"
                   THEN <<"**">> \o s0
                   ELSE s0
    IN  IF Len(s1) > 1 /\ s1[Len(s1)] = ""
        THEN SubSeq(s1, 1, Len(s1) - 1) \o <<"**">>
        ELSE s1

\* does the regex built from ps[i..] match fs[j..] ?
RECURSIVE RegexMatch(_, _, _, _)
RegexMatch(ps, i, fs, j) ==
    LET end == Len(ps) IN
    IF ps[i] = "**"
    THEN IF i = 1 /\ i = end THEN Join(fs) # ""                       \* .+
         ELSE IF i = end THEN j <= Len(fs)                            \* /.*
         ELSE \E k \in j..Len(fs) : RegexMatch(ps, i + 1, fs, k)      \* (?:.+/)?  (?:/.+)?
    ELSE /\ j <= Len(fs)
         /\ SegGlob(ps[i], fs[j])
         /\ IF i = end THEN TRUE                                      \* (?:/.*)?
            ELSE RegexMatch(ps, i + 1, fs, j + 1)

\* util.normalize_file: an absolute file is made relative
NormalizeFile(file) ==
    IF StartsWith(file, "/") THEN SubSeq(file, 2, Len(file))
    ELSE IF StartsWith(file, "./") THEN SubSeq(file, 3, Len(file))
    ELSE file

\* PathSpec.from_lines('gitwildmatch', patterns): the compiled patterns
FromLines(patterns) == [n \in 1..Len(patterns) |-> PatternSegs(patterns[n])]

\* spec.match_file(file)
MatchFile(spec, file) ==
    LET fs == Split(NormalizeFile(file)) IN
    \E n \in 1..Len(spec) : RegexMatch(spec[n], 1, fs, 1)

-----------------------------------------------------------------------------
(* The environment the process runs in                                     *)

\* $HOME of the user running the tool
HOME == "/Users/vmks"

\* the working directory of the process
CWD == "/Users/vmks/proj"

\* how a NUL byte inside a path string is written in this model
NUL == "\\0"

\* the symbolic links that may exist on disk: link |-> target
LinkTargets ==
    [l \in {"/Users/vmks", "/opt/docs"} |->
        IF l = "/Users/vmks" THEN "/Volumes/ext/vmks" ELSE "/Users/vmks/Documents"]

-----------------------------------------------------------------------------
(* _normalize_path                                                         *)

\* position of the first "/" at or after position i, Len(s)+1 if none
RECURSIVE FindSlash(_, _)
FindSlash(s, i) ==
    IF i > Len(s) THEN Len(s) + 1
    ELSE IF SubSeq(s, i, i) = "/" THEN i
    ELSE FindSlash(s, i + 1)

\* os.path.expanduser: "~" and "~/..." take $HOME; "~name" has no passwd
\* entry here and is returned unchanged
ExpandUser(path) ==
    IF ~StartsWith(path, "~") THEN path
    ELSE LET i == FindSlash(path, 2) IN
         IF i # 2 THEN path
         ELSE LET r == RStripSlash(HOME) \o SubSeq(path, i, Len(path)) IN
              IF r = "" THEN "/" ELSE r

\* os.path.realpath: walk the segments, dropping "" and ".", popping on "..",
\* restarting from the target when the path walked so far is a symbolic link
RECURSIVE RealPath(_, _, _)
RealPath(links, acc, rest) ==
    IF rest = <<>> THEN "/" \o Join(acc)
    ELSE LET s == Head(rest) IN
         IF s = "" \/ s = "." THEN RealPath(links, acc, Tail(rest))
         ELSE IF s = ".."
              THEN RealPath(links, SubSeq(acc, 1, Len(acc) - 1), Tail(rest))
              ELSE LET np == "/" \o Join(acc \o <<s>>) IN
                   IF np \in links
                   THEN RealPath(links, <<>>, Split(LinkTargets[np]) \o Tail(rest))
                   ELSE RealPath(links, acc \o <<s>>, Tail(rest))

\* Path(p).resolve(): made absolute against the working directory, then
\* realpath; a NUL byte makes the underlying lstat raise ValueError
Resolve(links, p) ==
    IF Contains(p, NUL) THEN [ok |-> FALSE, str |-> ""]
    ELSE LET abs == IF StartsWith(p, "/") THEN p ELSE CWD \o "/" \o p
         IN  [ok |-> TRUE, str |-> RealPath(links, <<>>, Split(abs))]

\* _normalize_path(path) = Path(os.path.expanduser(path)).resolve()
NormalizePath(links, path) == Resolve(links, ExpandUser(path))

-----------------------------------------------------------------------------
(* Layer 1: is_protected_path, is_deletable_category, validate_path_safety *)

\* the two specs, compiled once
ProtectedSpec == FromLines(PROTECTED_PATHS) @@ <<>>

DeletableSpec == FromLines(DELETABLE_PATTERNS) @@ <<>>

\* the bases of the "additional check": every pattern containing "**", with
\* each "/**" removed and a leading "~" expanded
ProtectedBases ==
    {ExpandUser(RemoveAll(PROTECTED_PATHS[n], "/**", 1)) :
        n \in {m \in 1..Len(PROTECTED_PATHS) : Contains(PROTECTED_PATHS[m], "**")}}

\* the "additional check": a string prefix test against each base
ProtectedParent(normalized_str) ==
    \E base \in ProtectedBases : StartsWith(normalized_str, base)

\* is_protected_path without the "additional check" of lines 191-198
IsProtectedPathNoParentCheck(links, path) ==
    LET normalized == NormalizePath(links, path) IN
    IF ~normalized.ok THEN TRUE
    ELSE MatchFile(ProtectedSpec, normalized.str)

\* is_protected_path answering False on an exception, as its docstring says
IsProtectedPathFalseOnError(links, path) ==
    LET normalized == NormalizePath(links, path) IN
    IF ~normalized.ok THEN FALSE
    ELSE \/ MatchFile(ProtectedSpec, normalized.str)
         \/ ProtectedParent(normalized.str)

\* is_protected_path: TRUE on any exception
IsProtectedPath(links, path) ==
    LET normalized == NormalizePath(links, path) IN
    IF ~normalized.ok THEN TRUE
    ELSE \/ MatchFile(ProtectedSpec, normalized.str)
         \/ ProtectedParent(normalized.str)

\* is_deletable_category: FALSE on any exception
IsDeletableCategory(links, path) ==
    LET normalized == NormalizePath(links, path) IN
    IF ~normalized.ok THEN FALSE
    ELSE MatchFile(DeletableSpec, normalized.str)

\* validate_path_safety without its second check
ValidatePathSafetyNoCheck2(links, path) ==
    IF IsProtectedPath(links, path) THEN "protected" ELSE "ok"

\* validate_path_safety: "ok", or the ProtectedPathError it raises
ValidatePathSafety(links, path) ==
    IF IsProtectedPath(links, path) THEN "protected"
    ELSE IF ~IsDeletableCategory(links, path) THEN "not_deletable"
    ELSE "ok"

-----------------------------------------------------------------------------
(* The file system below the user's home directory, as the validator's     *)
(* os.access / os.path.isfile / os.path.isdir / os.walk calls see it       *)

\* regular files (path relative to the home directory, size in bytes)
HomeFiles == {
    <<"proj/node_modules/pkg/index.js", 120>>,
    <<"proj/node_modules/pkg/lib/util.js", 30>>,
    <<"proj/node_modules/pkg/LICENSE", 11>>,
    <<"proj/build/locked/out.o", 50>>,
    <<"proj/app.log", 7>>,
    <<"Documents/important.txt", 5>>,
    <<"Documents/app/node_modules/pkg/a.js", 9>>,
    <<".ssh/id_rsa", 3>> }

\* directories that hold no file
EmptyDirs == {"proj/.venv", ".npm/_cacache", "random_folder"}

\* the nodes whose permission bits an environment step may clear or restore
ChmodTargets == {"proj/build/locked", "proj/node_modules/pkg/lib", "proj/app.log"}

\* where the home directory physically is, for each set of links present
PhysHomeTable ==
    [l \in SUBSET DOMAIN LinkTargets |-> RealPath(l, <<>>, Split(HOME))] @@ <<>>

PhysHome(links) == PhysHomeTable[links]

Phys(links, rel) == PhysHome(links) \o "/" \o rel

IsFileNode(links, node) == \E f \in HomeFiles : node = Phys(links, f[1])

IsDirNode(links, node) ==
    \/ \E f \in HomeFiles : StartsWith(Phys(links, f[1]), RStripSlash(node) \o "/")
    \/ \E d \in EmptyDirs : \/ node = Phys(links, d)
                            \/ StartsWith(Phys(links, d), RStripSlash(node) \o "/")

\* every directory on the way to the node can be searched
Reachable(links, den, node) ==
    ~ \E d \in den : StartsWith(node, Phys(links, d) \o "/")

\* os.access(path, os.R_OK): the raw path string, resolved by the kernel
\* (no "~" expansion); "raise" for the ValueError of an embedded NUL
OsAccess(links, den, path) ==
    LET n == Resolve(links, path) IN
    IF ~n.ok THEN "raise"
    ELSE IF /\ IsFileNode(links, n.str) \/ IsDirNode(links, n.str)
            /\ Reachable(links, den, n.str)
            /\ ~ \E d \in den : n.str = Phys(links, d)
         THEN "true" ELSE "false"

\* os.path.isfile / os.path.isdir: FALSE on any OSError or ValueError
OsIsFile(links, den, path) ==
    LET n == Resolve(links, path) IN
    n.ok /\ IsFileNode(links, n.str) /\ Reachable(links, den, n.str)

OsIsDir(links, den, path) ==
    LET n == Resolve(links, path) IN
    n.ok /\ IsDirNode(links, n.str) /\ Reachable(links, den, n.str)

RECURSIVE SumSizes(_)
SumSizes(fs) ==
    IF fs = {} THEN 0
    ELSE LET f == CHOOSE x \in fs : TRUE IN f[2] + SumSizes(fs \ {f})

\* os.path.getsize of a regular file
GetSize(links, path) ==
    LET n == Resolve(links, path) IN
    SumSizes({f \in HomeFiles : Phys(links, f[1]) = n.str})

\* _calculate_directory_size: os.walk from the directory, adding the size of
\* every file it lists; a directory that cannot be listed contributes nothing
CalculateDirectorySize(links, den, path) ==
    LET top == RStripSlash(Resolve(links, path).str)
        walked(f) ==
            /\ StartsWith(Phys(links, f[1]), top \o "/")
            /\ ~ \E d \in den :
                   /\ StartsWith(Phys(links, f[1]), Phys(links, d) \o "/")
                   /\ StartsWith(Phys(links, d) \o "/", top \o "/")
    IN  SumSizes({f \in HomeFiles : walked(f)})

\* os.walk(dir) with onerror=None: the files of every directory it can
\* list, as <<path relative to home, size>>; a directory whose scandir
\* fails is passed over with everything below it
RECURSIVE WalkDir(_, _, _)
WalkDir(links, den, dir) ==
    IF \E d \in den : dir = Phys(links, d) THEN {}
    ELSE LET inside    == {f \in HomeFiles : StartsWith(Phys(links, f[1]), dir \o "/")}
             rest(f)   == SubSeq(Phys(links, f[1]), Len(dir) + 2, Len(Phys(links, f[1])))
             filenames == {f \in inside : ~Contains(rest(f), "/")}
             dirnames  == {dir \o "/" \o Split(rest(f))[1] : f \in inside \ filenames}
         IN  filenames \cup UNION {WalkDir(links, den, sub) : sub \in dirnames}

\* the files os.walk(path) lists (the kernel resolves the path as passed)
Walk(links, den, path) ==
    LET top == RStripSlash(Resolve(links, path).str) IN
    IF Reachable(links, den, top) THEN WalkDir(links, den, top) ELSE {}

\* the loop giving up at the first file that is no longer there
RECURSIVE TotalStopsAtMissing(_, _, _)
TotalStopsAtMissing(order, gone, total) ==
    IF order = <<>> \/ Head(order)[1] \in gone THEN total
    ELSE TotalStopsAtMissing(Tail(order), gone, total + Head(order)[2])

\* total += os.path.getsize(filepath) if os.path.exists(filepath), over the
\* listed files in the order they come; gone are the files that no longer
\* exist when they are looked at
RECURSIVE Total(_, _, _)
Total(order, gone, total) ==
    IF order = <<>> THEN total
    ELSE Total(Tail(order), gone,
               IF Head(order)[1] \in gone THEN total ELSE total + Head(order)[2])

\* the orders in which a traversal can come upon the listed files
Orders(listed) ==
    {o \in [1..Cardinality(listed) -> listed] :
        \A i, j \in 1..Cardinality(listed) : i # j => o[i] # o[j]}

-----------------------------------------------------------------------------
(* The Category Registry (SQLite table "categories")                       *)

\* rows of the table: name |-> its is_deletable, restoration_command and
\* priority; restoration_command is <<>> for NULL
CategoryRows ==
    [n \in {"node_modules", "venv", "logs", "documents"} |->
        CASE n = "node_modules" -> [is_deletable |-> 1, restoration_command |-> <<"npm install">>,
                                    priority |-> 9]
          [] n = "venv"         -> [is_deletable |-> 1, restoration_command |-> <<>>,
                                    priority |-> 8]
          [] n = "logs"         -> [is_deletable |-> 1, restoration_command |-> <<"N/A">>,
                                    priority |-> 5]
          [] n = "documents"    -> [is_deletable |-> 0, restoration_command |-> <<>>,
                                    priority |-> 1]]

\* what the database file can be: there and sound, missing, in a directory
\* the process may not search, or there but not a usable database
DbStates == {"present", "absent", "denied", "corrupt"}

\* _check_category_permissions without its `except Exception`: the error of
\* the query reaches the caller
CheckCategoryPermissionsNoExcept(db, category_name) ==
    IF db = "denied" THEN [raised |-> TRUE, info |-> <<>>]
    ELSE IF db = "absent" THEN [raised |-> FALSE, info |-> <<>>]
    ELSE IF db = "corrupt" THEN [raised |-> TRUE, info |-> <<>>]
    ELSE IF category_name \in DOMAIN CategoryRows
         THEN [raised |-> FALSE, info |-> <<CategoryRows[category_name]>>]
         ELSE [raised |-> FALSE, info |-> <<>>]

\* _check_category_permissions: the row found, None (info = <<>>), or the
\* exception of Path.exists(), which is called outside the try block and
\* re-raises every OSError except ENOENT/ENOTDIR/EBADF/ELOOP
CheckCategoryPermissions(db, category_name) ==
    IF db = "denied" THEN [raised |-> TRUE, info |-> <<>>]
    ELSE IF db = "absent" THEN [raised |-> FALSE, info |-> <<>>]
    ELSE IF db = "corrupt" THEN [raised |-> FALSE, info |-> <<>>]
    ELSE IF category_name \in DOMAIN CategoryRows
         THEN [raised |-> FALSE, info |-> <<CategoryRows[category_name]>>]
         ELSE [raised |-> FALSE, info |-> <<>>]

\* get_deletable_categories: the names of the rows with is_deletable = 1 by
\* descending priority, [] when the file is missing or the query fails, or
\* the exception of Path.exists(), called outside the try block
GetDeletableCategories(db) ==
    IF db = "denied" THEN [raised |-> TRUE, list |-> <<>>]
    ELSE IF db # "present" THEN [raised |-> FALSE, list |-> <<>>]
    ELSE LET names == {n \in DOMAIN CategoryRows : CategoryRows[n].is_deletable = 1} IN
         [raised |-> FALSE,
          list |-> CHOOSE l \in [1..Cardinality(names) -> names] :
                       \A i, j \in DOMAIN l :
                           i < j => CategoryRows[l[i]].priority >
                                        CategoryRows[l[j]].priority]

-----------------------------------------------------------------------------
(* Inputs and bounds                                                       *)

\* longest list handed to validate_batch
MaxBatch == 3

\* number of changes the environment makes during a run
MaxEnvSteps == 1

\* the protected_system_paths fixture of the test suite, Path.home() being
\* HOME
protected_system_paths ==
    <<"/System/Library", "/usr/bin/python3", "/bin/bash",
      "/Library/Application Support",
      HOME \o "/Documents/important.txt", HOME \o "/Desktop",
      HOME \o "/.ssh/id_rsa", HOME \o "/.gitconfig">>

\* the deletable_test_paths fixture of the test suite: temp_project_dirs
\* puts its two projects into HOME/projects
deletable_test_paths ==
    <<HOME \o "/projects/my-app/node_modules",
      HOME \o "/projects/my-python-app/.venv",
      HOME \o "/.npm/_cacache", HOME \o "/Library/Caches/pip">>

\* the path strings callers pass in
RawPaths == {
    "/System/Library", "/usr/bin/python3", "/bin/bash",
    "/Library/Application Support", "/etc2/x", "/binary",
    "~/Documents/important.txt", "~/Desktop", "~/.ssh/id_rsa", "~/.gitconfig",
    "~/Documents/app/node_modules/pkg",
    "/Users/vmks/random_folder",
    "/Users/vmks/proj/node_modules", "/Users/vmks/proj/node_modules/pkg",
    "/Users/vmks/proj/node_modules/pkg/index.js",
    "/Users/vmks/proj/node_modules/pkg/LICENSE",
    "/Users/vmks/proj/.venv", "~/.npm/_cacache", "~/Library/Caches/pip",
    "~/.npm/_cacache/index-v5",
    "/Users/vmks/proj/app.log",
    "/Users/vmks/proj/build/locked", "/Users/vmks/proj/build/gone",
    "node_modules/pkg", "../proj/node_modules/pkg/lib",
    "~/proj/node_modules/pkg",
    "/opt/docs/important.txt",
    "/Users/vmks/proj/build/a" \o NUL \o "b" }
    \cup {protected_system_paths[i] : i \in DOMAIN protected_system_paths}
    \cup {deletable_test_paths[i] : i \in DOMAIN deletable_test_paths}

\* the directories _calculate_directory_size is called on directly
DirInputs ==
    {"/Users/vmks/proj", "/Users/vmks/proj/node_modules",
     "/Users/vmks/proj/node_modules/pkg", "/Users/vmks/proj/build/locked",
     "/Users/vmks/proj/.venv"}

\* number of files that vanish during one traversal
MaxGone == 1

\* the category arguments: None is <<>>, a string s is <<s>>
Categories ==
    {<<>>, <<"">>, <<"node_modules">>, <<"venv">>, <<"logs">>, <<"documents">>,
     <<"ghost">>}

\* the paths and categories batches are built from
BatchPaths ==
    {"/System/Library", "/Users/vmks/proj/node_modules/pkg",
     "/Users/vmks/proj/build/locked"}

BatchCategories == {<<>>, <<"node_modules">>}

BatchLists == UNION {[1..k -> BatchPaths] : k \in 0..MaxBatch}

-----------------------------------------------------------------------------------------------------------------------------------------------------
(* The classification and file-system operators are pure functions of the  *)
(* environment and the path; they are evaluated once for every environment  *)
(* and every input, and the validator reads the answers from these tables.  *)

LinkConfigs == SUBSET DOMAIN LinkTargets

DeniedConfigs == SUBSET ChmodTargets

Layer1Table ==
    [k \in LinkConfigs \X RawPaths |->
        [protected |-> IsProtectedPath(k[1], k[2]),
         deletable |-> IsDeletableCategory(k[1], k[2]),
         safety    |-> ValidatePathSafety(k[1], k[2])]] @@ <<>>

FsTable ==
    [k \in LinkConfigs \X DeniedConfigs \X RawPaths |->
        [access  |-> OsAccess(k[1], k[2], k[3]),
         isfile  |-> OsIsFile(k[1], k[2], k[3]),
         isdir   |-> OsIsDir(k[1], k[2], k[3]),
         size    |-> GetSize(k[1], k[3]),
         dirsize |-> CalculateDirectorySize(k[1], k[2], k[3]),
         vanishes |-> FALSE]] @@ <<>>

WalkTable ==
    [k \in LinkConfigs \X DeniedConfigs \X DirInputs |->
        Walk(k[1], k[2], k[3])] @@ <<>>

-----
(* DeletionValidator.validate_deletion                                     *)

\* ValidationResult(valid=False, path=path, category=category)
NewResult(path, category) ==
    [valid |-> FALSE, path |-> path, category |-> category, size_bytes |-> 0,
     is_deletable |-> FALSE, restoration_command |-> <<>>,
     warnings |-> <<>>, errors |-> <<>>]

\* the messages of the two ProtectedPathError raised by validate_path_safety
ProtectedPathErrorMsg(kind, path) ==
    IF kind = "protected"
    THEN "Cannot delete protected path: " \o path \o
         "\nThis path is in the protected paths list and can NEVER be deleted."
    ELSE "Path does not match any deletable category: " \o path \o
         "\nOnly explicitly allowed categories (node_modules, venv, caches, etc.) can be deleted." \o
         "\nThis is a safety measure to prevent accidental deletion of important data."

NoCategoryWarning == "No category specified - assuming manual categorization"

NoRestorationWarning ==
    "No restoration method available - deletion will be permanent (except Trash recovery for 30 days)"

DryRunWarning == "DRY-RUN MODE: No actual deletion will be performed"

\* the warning for the FileNotFoundError of os.path.getsize
SizeWarning(path) ==
    "Could not calculate size: [Errno 2] No such file or directory: '" \o path \o "'"

\* the test `is not None` in the place of the truth value
TruthyIsNotNone(opt) == opt # <<>>

\* Python truth value of an Optional[str]: None and "" are false
Truthy(opt) == opt # <<>> /\ opt[1] # ""

Returned(result, calls) == [raised |-> FALSE, result |-> result, calls |-> calls]

Raised(result, calls) == [raised |-> TRUE, result |-> result, calls |-> calls]

\* the size block with its exception recorded as an error that ends the
\* validation
SizeAndFinalizeSizeErrorFatal(fs, dry, result, calls) ==
    IF fs.isfile /\ fs.vanishes
    THEN Returned([result EXCEPT !.errors = Append(@, SizeWarning(result.path))],
                  calls \o <<"os.path.isfile", "os.path.getsize">>)
    ELSE Returned(
        [result EXCEPT
            !.size_bytes = IF fs.isfile THEN fs.size
                           ELSE IF fs.isdir THEN fs.dirsize ELSE @,
            !.valid = TRUE,
            !.warnings = @ \o (IF dry THEN <<DryRunWarning>> ELSE <<>>)],
        calls \o <<"os.path.isfile">> \o
        (IF fs.isfile THEN <<"os.path.getsize">>
         ELSE <<"os.path.isdir">> \o
              (IF fs.isdir THEN <<"_calculate_directory_size">> ELSE <<>>)))

\* finalize with the dry-run warning put in front of the other warnings
SizeAndFinalizeWarnsFirst(fs, dry, result, calls) ==
    Returned(
        [result EXCEPT
            !.size_bytes = IF fs.isfile THEN (IF fs.vanishes THEN @ ELSE fs.size)
                           ELSE IF fs.isdir THEN fs.dirsize ELSE @,
            !.valid = TRUE,
            !.warnings = (IF dry THEN <<DryRunWarning>> ELSE <<>>) \o @ \o
                         (IF fs.isfile /\ fs.vanishes
                          THEN <<SizeWarning(result.path)>> ELSE <<>>)],
        calls \o <<"os.path.isfile">> \o
        (IF fs.isfile THEN <<"os.path.getsize">>
         ELSE <<"os.path.isdir">> \o
              (IF fs.isdir THEN <<"_calculate_directory_size">> ELSE <<>>)))

\* size calculation, result.valid = True, dry-run warning; fs is what the
\* os calls answer for the path, fs.vanishes saying that the file is removed
\* between os.path.isfile and os.path.getsize, which then raises
SizeAndFinalize(fs, dry, result, calls) ==
    Returned(
        [result EXCEPT
            !.size_bytes = IF fs.isfile THEN (IF fs.vanishes THEN @ ELSE fs.size)
                           ELSE IF fs.isdir THEN fs.dirsize ELSE @,
            !.valid = TRUE,
            !.warnings = @ \o
                         (IF fs.isfile /\ fs.vanishes
                          THEN <<SizeWarning(result.path)>> ELSE <<>>) \o
                         (IF dry THEN <<DryRunWarning>> ELSE <<>>)],
        calls \o <<"os.path.isfile">> \o
        (IF fs.isfile THEN <<"os.path.getsize">>
         ELSE <<"os.path.isdir">> \o
              (IF fs.isdir THEN <<"_calculate_directory_size">> ELSE <<>>)))

\* Layer 6 failing open: an unreadable path is let through
Layer6FailOpen(fs, dry, path, result, calls) ==
    IF fs.access = "raise"
    THEN Returned([result EXCEPT !.errors = Append(@,
             "Layer 6 failed: Permission check error: embedded null byte")],
             Append(calls, "os.access"))
    ELSE SizeAndFinalize(fs, dry, result, Append(calls, "os.access"))

\* Layer 6 with the size taken before the permission check
Layer6SizeFirst(fs, dry, path, result, calls) ==
    IF fs.access = "true"
    THEN SizeAndFinalize(fs, dry, result, Append(calls, "os.access"))
    ELSE Returned([result EXCEPT
                      !.size_bytes = IF fs.isfile THEN fs.size
                                     ELSE IF fs.isdir THEN fs.dirsize ELSE @,
                      !.errors = Append(@,
                          "Layer 6 failed: Cannot read path (permission denied): " \o path)],
                  Append(calls, "os.access"))

\* Layer 6 with the `return result` after the permission error left out
Layer6NoReturn(fs, dry, path, result, calls) ==
    IF fs.access = "true"
    THEN SizeAndFinalize(fs, dry, result, Append(calls, "os.access"))
    ELSE SizeAndFinalize(fs, dry,
             [result EXCEPT !.errors = Append(@,
                 "Layer 6 failed: Cannot read path (permission denied): " \o path)],
             Append(calls, "os.access"))

\* Layer 6 left out in dry-run mode
Layer6SkippedInDryRun(fs, dry, path, result, calls) ==
    IF dry \/ fs.access = "true"
    THEN SizeAndFinalize(fs, dry, result, Append(calls, "os.access"))
    ELSE IF fs.access = "false"
    THEN Returned([result EXCEPT !.errors = Append(@,
             "Layer 6 failed: Cannot read path (permission denied): " \o path)],
             Append(calls, "os.access"))
    ELSE Returned([result EXCEPT !.errors = Append(@,
             "Layer 6 failed: Permission check error: embedded null byte")],
             Append(calls, "os.access"))

\* Layer 6 testing the permissions only of a path that exists
Layer6OnlyIfExists(fs, dry, path, result, calls) ==
    IF fs.access = "raise"
    THEN Returned([result EXCEPT !.errors = Append(@,
             "Layer 6 failed: Permission check error: embedded null byte")],
             Append(calls, "os.access"))
    ELSE IF (fs.isfile \/ fs.isdir) /\ fs.access = "false"
    THEN Returned([result EXCEPT !.errors = Append(@,
             "Layer 6 failed: Cannot read path (permission denied): " \o path)],
             Append(calls, "os.access"))
    ELSE SizeAndFinalize(fs, dry, result, Append(calls, "os.access"))

\* Layer 6: permission check
Layer6(fs, dry, path, result, calls) ==
    IF fs.access = "false"
    THEN Returned([result EXCEPT !.errors = Append(@,
             "Layer 6 failed: Cannot read path (permission denied): " \o path)],
             Append(calls, "os.access"))
    ELSE IF fs.access = "raise"
    THEN Returned([result EXCEPT !.errors = Append(@,
             "Layer 6 failed: Permission check error: embedded null byte")],
             Append(calls, "os.access"))
    ELSE SizeAndFinalize(fs, dry, result, Append(calls, "os.access"))

\* Layer 4: restoration method check
Layer4(fs, dry, path, result, calls) ==
    Layer6(fs, dry, path,
           IF ~Truthy(result.restoration_command)
              \/ result.restoration_command = <<"N/A">>
           THEN [result EXCEPT !.warnings = Append(@, NoRestorationWarning)]
           ELSE result,
           calls)

\* Layer 2 with the is_deletable test left out
Layer2NoDeletableCheck(look, fs, dry, path, category, result, calls) ==
    IF Truthy(category)
    THEN IF look.raised
         THEN Raised(result, Append(calls, "_check_category_permissions"))
         ELSE IF look.info = <<>>
         THEN Returned([result EXCEPT !.errors = Append(@,
                  "Layer 2 failed: Category '" \o category[1] \o
                  "' not found in database")],
                  Append(calls, "_check_category_permissions"))
         ELSE Layer4(fs, dry, path,
                     [result EXCEPT !.is_deletable = TRUE,
                                    !.restoration_command =
                                        look.info[1].restoration_command],
                     Append(calls, "_check_category_permissions"))
    ELSE Layer4(fs, dry, path,
                [result EXCEPT !.warnings = Append(@, NoCategoryWarning)], calls)

\* Layer 2 taking a path that passed the pattern classification as deletable
\* when no category is given
Layer2TrustsPatterns(look, fs, dry, path, category, result, calls) ==
    IF Truthy(category)
    THEN Layer2NoDeletableCheck(look, fs, dry, path, category, result, calls)
    ELSE Layer4(fs, dry, path,
                [result EXCEPT !.is_deletable = TRUE,
                               !.warnings = Append(@, NoCategoryWarning)], calls)

\* Layer 2 treating a missing category as fatal
Layer2RequiresCategory(look, fs, dry, path, category, result, calls) ==
    IF Truthy(category)
    THEN Layer2NoDeletableCheck(look, fs, dry, path, category, result, calls)
    ELSE Returned([result EXCEPT !.errors = Append(@,
             "Layer 2 failed: No category specified")], calls)

\* Layer 2 with the `return result` after the not-deletable error left out
Layer2NoReturn(look, fs, dry, path, category, result, calls) ==
    IF Truthy(category) /\ ~look.raised /\ look.info # <<>>
       /\ look.info[1].is_deletable = 0
    THEN Layer4(fs, dry, path,
                [result EXCEPT !.errors = Append(@,
                                   "Layer 2 failed: Category '" \o category[1] \o
                                   "' is marked as not deletable"),
                               !.is_deletable = TRUE,
                               !.restoration_command =
                                   look.info[1].restoration_command],
                Append(calls, "_check_category_permissions"))
    ELSE Layer2NoDeletableCheck(look, fs, dry, path, category, result, calls)

\* Layer 2: category permissions check; look is what
\* _check_category_permissions does for the category (read only when the
\* category is truthy)
Layer2(look, fs, dry, path, category, result, calls) ==
    IF Truthy(category)
    THEN IF look.raised
         THEN Raised(result, Append(calls, "_check_category_permissions"))
         ELSE IF look.info = <<>>
         THEN Returned([result EXCEPT !.errors = Append(@,
                  "Layer 2 failed: Category '" \o category[1] \o
                  "' not found in database")],
                  Append(calls, "_check_category_permissions"))
         ELSE IF look.info[1].is_deletable = 0
         THEN Returned([result EXCEPT !.errors = Append(@,
                  "Layer 2 failed: Category '" \o category[1] \o
                  "' is marked as not deletable")],
                  Append(calls, "_check_category_permissions"))
         ELSE Layer4(fs, dry, path,
                     [result EXCEPT !.is_deletable = TRUE,
                                    !.restoration_command =
                                        look.info[1].restoration_command],
                     Append(calls, "_check_category_permissions"))
    ELSE Layer4(fs, dry, path,
                [result EXCEPT !.warnings = Append(@, NoCategoryWarning)], calls)

\* Layer 1 with the `return result` after the error left out
Layer1NoReturn(safety, look, fs, dry, path, category) ==
    Layer2(look, fs, dry, path, category,
           IF safety # "ok"
           THEN [NewResult(path, category) EXCEPT !.errors = Append(@,
                    "Layer 1 failed: " \o ProtectedPathErrorMsg(safety, path))]
           ELSE NewResult(path, category),
           <<"validate_path_safety">>)

\* Layer 1: protected paths check; safety is what validate_path_safety does
\* for the path
Layer1(safety, look, fs, dry, path, category) ==
    IF safety # "ok"
    THEN Returned([NewResult(path, category) EXCEPT !.errors = Append(@,
             "Layer 1 failed: " \o ProtectedPathErrorMsg(safety, path))],
             <<"validate_path_safety">>)
    ELSE Layer2(look, fs, dry, path, category, NewResult(path, category),
                <<"validate_path_safety">>)

\* validate_deletion(path, category) of a validator with the given dry_run,
\* in the given environment: what it returns (or that it raised) and the
\* collaborators it called, in order; race says that another process removes
\* the path while the call is running
ValidateDeletion(links, db, den, dry, path, category, race) ==
    Layer1(Layer1Table[<<links, path>>].safety,
           CheckCategoryPermissions(db, IF Truthy(category) THEN category[1] ELSE ""),
           [FsTable[<<links, den, path>>] EXCEPT !.vanishes = race],
           dry, path, category)

\* the list a completed comprehension yields, or the exception that left it
Comprehension(each) ==
    IF \E i \in DOMAIN each : each[i].raised
    THEN [raised |-> TRUE, results |-> <<>>]
    ELSE [raised |-> FALSE, results |-> [i \in DOMAIN each |-> each[i].result]]

\* validate_batch: the list comprehension; an exception in one element
\* leaves the comprehension, and no list is returned; races[i] says that
\* another process removes paths[i] while it is being validated
ValidateBatch(links, db, den, dry, paths, category, races) ==
    Comprehension([i \in 1..Len(paths) |->
                      ValidateDeletion(links, db, den, dry, paths[i], category,
                                       races[i])])

\* enforce_dry_run with its test inverted
EnforceDryRunInverted(dry) == dry

\* enforce_dry_run: TRUE when DryRunViolationError is raised
EnforceDryRun(dry) == ~dry

-----------------------------------------------------------------------------
(* The state machine                                                       *)

\* nothing is pending: the caller has taken the previous answer
Idle ==
    [op |-> "idle", path |-> "", category |-> <<>>, paths |-> <<>>,
     raised |-> FALSE, answer |-> "", result |-> NewResult("", <<>>),
     results |-> <<>>, calls |-> <<>>, deleted |-> FALSE,
     gone |-> {}, size |-> 0, listing |-> <<>>, vanished |-> FALSE]

\* the threads that call the validator
Threads == {"t1", "t2"}

\* a thread that is in no call
IdleThread ==
    [pc |-> "idle", kind |-> "", paths |-> <<>>, category |-> <<>>, i |-> 0,
     raised |-> FALSE, results |-> <<>>]

\* the state after DeletionValidator() with its defaults, in a machine with
\* the registry in place and one build directory locked
Init ==
    /\ dry_run = TRUE
    /\ require_confirmation = TRUE
    /\ symlinks = {}
    /\ dbstat = "present"
    /\ denied = {"proj/build/locked"}
    /\ envsteps = 0
    /\ last = Idle
    /\ threads = [t \in Threads |-> IdleThread]
    /\ cells = [t \in Threads |-> NewResult("", <<>>)]

env == <<symlinks, dbstat, denied, envsteps>>

\* DeletionValidator.__init__(dry_run, require_confirmation)
Construct(d, r) ==
    /\ last.op = "idle"
    /\ dry_run' = d
    /\ require_confirmation' = r
    /\ UNCHANGED <<threads, cells, env, last>>

\* validator.validate_deletion(path, category)
CallValidateDeletion(path, category) ==
    /\ last.op = "idle"
    /\ \E race \in BOOLEAN :
       \E v \in {ValidateDeletion(symlinks, dbstat, denied, dry_run, path, category,
                                  race)} :
           last' = [Idle EXCEPT !.op = "validate_deletion", !.path = path,
                                !.category = category, !.raised = v.raised,
                                !.result = v.result, !.calls = v.calls,
                                !.vanished = race]
    /\ UNCHANGED <<threads, cells, dry_run, require_confirmation,
                   env>>

\* validator.validate_batch(paths, category)
CallValidateBatch(paths, category) ==
    /\ last.op = "idle"
    /\ \E races \in [1..Len(paths) -> BOOLEAN] :
       \E v \in {ValidateBatch(symlinks, dbstat, denied, dry_run, paths, category,
                               races)} :
           last' = [Idle EXCEPT !.op = "validate_batch", !.paths = paths,
                                !.category = category, !.raised = v.raised,
                                !.results = v.results]
    /\ UNCHANGED <<threads, cells, dry_run, require_confirmation,
                   env>>

\* validator.enforce_dry_run()
CallEnforceDryRun ==
    /\ last.op = "idle"
    /\ last' = [Idle EXCEPT !.op = "enforce_dry_run",
                            !.raised = EnforceDryRun(dry_run)]
    /\ UNCHANGED <<threads, cells, dry_run, require_confirmation,
                   env>>

\* is_protected_path(path)
CallIsProtectedPath(path) ==
    /\ last.op = "idle"
    /\ last' = [Idle EXCEPT !.op = "is_protected_path", !.path = path,
                   !.answer = IF Layer1Table[<<symlinks, path>>].protected
                              THEN "true" ELSE "false"]
    /\ UNCHANGED <<threads, cells, dry_run, require_confirmation,
                   env>>

\* is_deletable_category(path)
CallIsDeletableCategory(path) ==
    /\ last.op = "idle"
    /\ last' = [Idle EXCEPT !.op = "is_deletable_category", !.path = path,
                   !.answer = IF Layer1Table[<<symlinks, path>>].deletable
                              THEN "true" ELSE "false"]
    /\ UNCHANGED <<threads, cells, dry_run, require_confirmation,
                   env>>

\* validate_path_safety(path): raises ProtectedPathError unless "ok"
CallValidatePathSafety(path) ==
    /\ last.op = "idle"
    /\ \E a \in {Layer1Table[<<symlinks, path>>].safety} :
           last' = [Idle EXCEPT !.op = "validate_path_safety", !.path = path,
                                !.answer = a, !.raised = (a # "ok")]
    /\ UNCHANGED <<threads, cells, dry_run, require_confirmation,
                   env>>

\* validator._calculate_directory_size(path), while other processes may
\* remove files of the tree
CallCalculateDirectorySize(path) ==
    /\ last.op = "idle"
    /\ \E listed \in {WalkTable[<<symlinks, denied, path>>]} :
       \E order \in Orders(listed) :
       \E gone \in {g \in SUBSET {f[1] : f \in listed} : Cardinality(g) <= MaxGone} :
           last' = [Idle EXCEPT !.op = "_calculate_directory_size",
                                !.path = path, !.gone = gone,
                                !.size = Total(order, gone, 0)]
    /\ UNCHANGED <<threads, cells, dry_run, require_confirmation,
                   env>>

\* get_deletable_categories()
CallGetDeletableCategories ==
    /\ last.op = "idle"
    /\ \E v \in {GetDeletableCategories(dbstat)} :
           last' = [Idle EXCEPT !.op = "get_deletable_categories",
                                !.raised = v.raised, !.listing = v.list]
    /\ UNCHANGED <<threads, cells, dry_run, require_confirmation,
                   env>>

\* the deletion executor of the specification: it calls enforce_dry_run()
\* immediately before the irreversible action and acts only if that did
\* not fail
ExecuteDeletion ==
    /\ last.op = "idle"
    /\ LET failed == EnforceDryRun(dry_run)
       IN  last' = [Idle EXCEPT !.op = "execute_deletion", !.raised = failed,
                                !.deleted = ~failed]
    /\ UNCHANGED <<threads, cells, dry_run, require_confirmation,
                   env>>

\* the caller takes the answer
Return ==
    /\ last.op # "idle"
    /\ last' = Idle
    /\ UNCHANGED <<threads, cells, dry_run, require_confirmation,
                   env>>

\* environment: a symbolic link is created or removed
ToggleSymlink(l) ==
    /\ last.op = "idle"
    /\ envsteps < MaxEnvSteps
    /\ symlinks' = IF l \in symlinks THEN symlinks \ {l} ELSE symlinks \cup {l}
    /\ envsteps' = envsteps + 1
    /\ UNCHANGED <<threads, cells, dry_run, require_confirmation,
                   dbstat, denied, last>>

\* environment: the database file changes state
SetDatabase(s) ==
    /\ last.op = "idle"
    /\ envsteps < MaxEnvSteps
    /\ s # dbstat
    /\ dbstat' = s
    /\ envsteps' = envsteps + 1
    /\ UNCHANGED <<threads, cells, dry_run, require_confirmation,
                   symlinks, denied, last>>

\* environment: chmod 000 on a node, or its permissions restored
Chmod(n) ==
    /\ last.op = "idle"
    /\ envsteps < MaxEnvSteps
    /\ denied' = IF n \in denied THEN denied \ {n} ELSE denied \cup {n}
    /\ envsteps' = envsteps + 1
    /\ UNCHANGED <<threads, cells, dry_run, require_confirmation,
                   symlinks, dbstat, last>>

Next ==
    \/ \E d \in BOOLEAN, r \in BOOLEAN : Construct(d, r)
    \/ \E p \in RawPaths, c \in Categories : CallValidateDeletion(p, c)
    \/ \E ps \in BatchLists, c \in BatchCategories : CallValidateBatch(ps, c)
    \/ CallEnforceDryRun
    \/ \E p \in RawPaths : CallIsProtectedPath(p)
    \/ \E p \in RawPaths : CallIsDeletableCategory(p)
    \/ \E p \in RawPaths : CallValidatePathSafety(p)
    \/ \E p \in DirInputs : CallCalculateDirectorySize(p)
    \/ CallGetDeletableCategories
    \/ ExecuteDeletion
    \/ Return
    \/ \E l \in DOMAIN LinkTargets : ToggleSymlink(l)
    \/ \E s \in DbStates : SetDatabase(s)
    \/ \E n \in ChmodTargets : Chmod(n)

Spec == Init /\ [][Next]_vars

-----------------------------------------------------------------------------
(* Concurrent validations: each thread goes through validate_deletion (or  *)
(* through the comprehension of validate_batch) one layer at a time, and   *)
(* the steps of the threads interleave                                     *)

\* the paths, categories and batches of the concurrent calls
ConcPaths ==
    {"/System/Library", "/Users/vmks/proj/node_modules/pkg",
     "/Users/vmks/proj/build/locked"}

ConcCategories == {<<>>, <<"node_modules">>}

ConcBatches ==
    [1..2 -> {"/System/Library", "/Users/vmks/proj/node_modules/pkg"}]

\* all calls writing one and the same result object
SharedResultCell(t) == "t1"

\* result = ValidationResult(...): every call builds an object of its own
ResultCell(t) == t

\* the result object of the call thread t is in, and the path it is at
Mine(t) == cells[ResultCell(t)]

ConcPath(t) == threads[t].paths[threads[t].i]

AllIdle == \A t \in Threads : threads[t].pc = "idle"

\* what no step of a validation touches
quiet == UNCHANGED <<dry_run, require_confirmation, env, last>>

\* a thread calls validate_deletion (kind "single") or validate_batch
ConcStart(t, kind, paths, category) ==
    /\ threads[t].pc = "idle"
    /\ threads' = [threads EXCEPT ![t] =
           [pc |-> "new", kind |-> kind, paths |-> paths, category |-> category,
            i |-> 1, raised |-> FALSE, results |-> <<>>]]
    /\ UNCHANGED cells
    /\ quiet

\* result = ValidationResult(valid=False, path=path, category=category)
ConcNew(t) ==
    /\ threads[t].pc = "new"
    /\ cells' = [cells EXCEPT ![ResultCell(t)] =
                    NewResult(ConcPath(t), threads[t].category)]
    /\ threads' = [threads EXCEPT ![t].pc = "layer1"]
    /\ quiet

\* Layer 1
ConcLayer1(t) ==
    /\ threads[t].pc = "layer1"
    /\ \E safety \in {Layer1Table[<<symlinks, ConcPath(t)>>].safety} :
           IF safety # "ok"
           THEN /\ cells' = [cells EXCEPT ![ResultCell(t)].errors = Append(@,
                        "Layer 1 failed: " \o ProtectedPathErrorMsg(safety, ConcPath(t)))]
                /\ threads' = [threads EXCEPT ![t].pc = "return"]
           ELSE /\ threads' = [threads EXCEPT ![t].pc = "layer2"]
                /\ UNCHANGED cells
    /\ quiet

\* Layer 2
ConcLayer2(t) ==
    /\ threads[t].pc = "layer2"
    /\ IF Truthy(threads[t].category)
       THEN \E look \in {CheckCategoryPermissions(dbstat, threads[t].category[1])} :
                IF look.raised
                THEN /\ threads' = [threads EXCEPT ![t].pc = "done", ![t].raised = TRUE]
                     /\ UNCHANGED cells
                ELSE IF look.info = <<>>
                THEN /\ cells' = [cells EXCEPT ![ResultCell(t)].errors = Append(@,
                             "Layer 2 failed: Category '" \o threads[t].category[1] \o
                             "' not found in database")]
                     /\ threads' = [threads EXCEPT ![t].pc = "return"]
                ELSE IF look.info[1].is_deletable = 0
                THEN /\ cells' = [cells EXCEPT ![ResultCell(t)].errors = Append(@,
                             "Layer 2 failed: Category '" \o threads[t].category[1] \o
                             "' is marked as not deletable")]
                     /\ threads' = [threads EXCEPT ![t].pc = "return"]
                ELSE /\ cells' = [cells EXCEPT
                             ![ResultCell(t)].is_deletable = TRUE,
                             ![ResultCell(t)].restoration_command =
                                 look.info[1].restoration_command]
                     /\ threads' = [threads EXCEPT ![t].pc = "layer4"]
       ELSE /\ cells' = [cells EXCEPT ![ResultCell(t)].warnings =
                            Append(@, NoCategoryWarning)]
            /\ threads' = [threads EXCEPT ![t].pc = "layer4"]
    /\ quiet

\* Layer 4
ConcLayer4(t) ==
    /\ threads[t].pc = "layer4"
    /\ IF ~Truthy(Mine(t).restoration_command)
          \/ Mine(t).restoration_command = <<"N/A">>
       THEN cells' = [cells EXCEPT ![ResultCell(t)].warnings =
                         Append(@, NoRestorationWarning)]
       ELSE UNCHANGED cells
    /\ threads' = [threads EXCEPT ![t].pc = "layer6"]
    /\ quiet

\* Layer 6
ConcLayer6(t) ==
    /\ threads[t].pc = "layer6"
    /\ \E a \in {FsTable[<<symlinks, denied, ConcPath(t)>>].access} :
           IF a = "false"
           THEN /\ cells' = [cells EXCEPT ![ResultCell(t)].errors = Append(@,
                        "Layer 6 failed: Cannot read path (permission denied): "
                        \o ConcPath(t))]
                /\ threads' = [threads EXCEPT ![t].pc = "return"]
           ELSE IF a = "raise"
           THEN /\ cells' = [cells EXCEPT ![ResultCell(t)].errors = Append(@,
                        "Layer 6 failed: Permission check error: embedded null byte")]
                /\ threads' = [threads EXCEPT ![t].pc = "return"]
           ELSE /\ threads' = [threads EXCEPT ![t].pc = "size"]
                /\ UNCHANGED cells
    /\ quiet

\* size calculation
ConcSize(t) ==
    /\ threads[t].pc = "size"
    /\ \E fs \in {FsTable[<<symlinks, denied, ConcPath(t)>>]} :
           cells' = [cells EXCEPT ![ResultCell(t)].size_bytes =
                        IF fs.isfile THEN fs.size
                        ELSE IF fs.isdir THEN fs.dirsize ELSE @]
    /\ threads' = [threads EXCEPT ![t].pc = "finalize"]
    /\ quiet

\* result.valid = True and the dry-run warning
ConcFinalize(t) ==
    /\ threads[t].pc = "finalize"
    /\ cells' = [cells EXCEPT
                    ![ResultCell(t)].valid = TRUE,
                    ![ResultCell(t)].warnings =
                        IF dry_run THEN Append(@, DryRunWarning) ELSE @]
    /\ threads' = [threads EXCEPT ![t].pc = "return"]
    /\ quiet

\* return result; in a batch the comprehension goes on to the next path
ConcReturn(t) ==
    /\ threads[t].pc = "return"
    /\ threads' = [threads EXCEPT
                      ![t].results = Append(@, Mine(t)),
                      ![t].i = IF @ < Len(threads[t].paths) THEN @ + 1 ELSE @,
                      ![t].pc = IF threads[t].i < Len(threads[t].paths)
                                THEN "new" ELSE "done"]
    /\ UNCHANGED cells
    /\ quiet

\* the caller takes what the call delivered
ConcCollect(t) ==
    /\ threads[t].pc = "done"
    /\ threads' = [threads EXCEPT ![t] = IdleThread]
    /\ cells' = [cells EXCEPT ![ResultCell(t)] = NewResult("", <<>>)]
    /\ quiet

NextConc ==
    \/ \E t \in Threads, p \in ConcPaths, c \in ConcCategories :
           ConcStart(t, "single", <<p>>, c)
    \/ \E t \in Threads, ps \in ConcBatches, c \in ConcCategories :
           ConcStart(t, "batch", ps, c)
    \/ \E t \in Threads : ConcNew(t)
    \/ \E t \in Threads : ConcLayer1(t)
    \/ \E t \in Threads : ConcLayer2(t)
    \/ \E t \in Threads : ConcLayer4(t)
    \/ \E t \in Threads : ConcLayer6(t)
    \/ \E t \in Threads : ConcSize(t)
    \/ \E t \in Threads : ConcFinalize(t)
    \/ \E t \in Threads : ConcReturn(t)
    \/ \E t \in Threads : ConcCollect(t)
    \/ AllIdle /\ \E d \in BOOLEAN, r \in BOOLEAN : Construct(d, r)
    \/ AllIdle /\ \E s \in DbStates : SetDatabase(s)

SpecConc == Init /\ [][NextConc]_vars

-----------------------------------------------------------------------------
(* Notions the properties are stated with                                  *)

\* the protected patterns as the specification reads them: a leading "~" is
\* the home directory
ReferenceProtectedSpec ==
    FromLines([n \in 1..Len(PROTECTED_PATHS) |-> ExpandUser(PROTECTED_PATHS[n])]) @@ <<>>

\* normalisation failed / the normalised path / it matches a protected
\* pattern / it is the literal prefix of a recursive protected pattern or a
\* descendant of it, by segments / the same with the prefix taken where it
\* physically is (its own symbolic links resolved)
ReferenceTable ==
    [k \in LinkConfigs \X RawPaths |->
        LET n == NormalizePath(k[1], k[2]) IN
        [normfailed |-> ~n.ok,
         norm       |-> n.str,
         matches    |-> n.ok /\ MatchFile(ReferenceProtectedSpec, n.str),
         under      |-> n.ok /\ \E base \in ProtectedBases :
                            n.str = base \/ StartsWith(n.str, base \o "/"),
         underphys  |-> n.ok /\ \E base \in ProtectedBases :
                            /\ StartsWith(base, "/")
                            /\ \/ n.str = Resolve(k[1], base).str
                               \/ StartsWith(n.str, Resolve(k[1], base).str \o "/")]] @@ <<>>

\* the answers of Layer 1 for the path of the pending call, in the current
\* environment
Here == Layer1Table[<<symlinks, last.path>>]

Ref == ReferenceTable[<<symlinks, last.path>>]

Layer1ProtectedError(path) ==
    "Layer 1 failed: " \o ProtectedPathErrorMsg("protected", path)

Layer1NotDeletableError(path) ==
    "Layer 1 failed: " \o ProtectedPathErrorMsg("not_deletable", path)

\* the registry, as the environment holds it, confirms the name as deletable
RegistryConfirms(name) ==
    /\ dbstat = "present"
    /\ name \in DOMAIN CategoryRows
    /\ CategoryRows[name].is_deletable = 1

\* the registry can be asked (the lookup comes back) and does not confirm
RegistryDenies(name) ==
    \/ dbstat \in {"absent", "corrupt"}
    \/ dbstat = "present" /\ ~RegistryConfirms(name)

\* the regular files under the directory a path denotes whose size can be
\* taken: those below it with no directory on the way, the directory itself included, that the
\* process cannot list or search
SizeReferenceTable ==
    [k \in LinkConfigs \X DeniedConfigs \X DirInputs |->
        LET top == Resolve(k[1], k[3]).str IN
        {f \in HomeFiles :
            /\ StartsWith(Phys(k[1], f[1]), top \o "/")
            /\ \A d \in k[2] :
                   ~ \/ StartsWith(Phys(k[1], f[1]), Phys(k[1], d) \o "/")
                     \/ StartsWith(top \o "/", Phys(k[1], d) \o "/")}] @@ <<>>

SizeRef == SizeReferenceTable[<<symlinks, denied, last.path>>]

-----------------------------------------------------------------------------
(* Properties                                                              *)

\* C1: for every path whose normalised form matches a pattern of the
\* protected set (a "~/..." pattern read under the home directory),
\* is_protected_path answers true and validate_deletion returns valid=false
\* with exactly the Layer-1 protected-path error, whatever the category.
C1_ProtectedAlwaysBlocked ==
    (last.op \in {"is_protected_path", "validate_deletion"} /\ Ref.matches) =>
        /\ last.op = "is_protected_path" => last.answer = "true"
        /\ last.op = "validate_deletion" =>
               /\ ~last.raised
               /\ last.result.valid = FALSE
               /\ last.result.errors = <<Layer1ProtectedError(last.path)>>

C1_Witness ==
    /\ last.op = "validate_deletion"
    /\ last.path = "~/.ssh/id_rsa"
    /\ last.category = <<"node_modules">>
    /\ Ref.matches
    /\ last.result.valid = FALSE
    /\ last.result.errors = <<Layer1ProtectedError(last.path)>>

\* C2: for a path that is protected and also matches a deletable pattern,
\* validate_deletion stops at Layer 1: exactly the Layer-1 error, and only
\* validate_path_safety was called (no registry query, no permission check,
\* no size computation), no warning, no size, no registry field.
C2_ProtectionWins ==
    (last.op = "validate_deletion" /\ Here.protected /\ Here.deletable) =>
        /\ ~last.raised
        /\ last.result.valid = FALSE
        /\ last.result.errors = <<Layer1ProtectedError(last.path)>>
        /\ last.calls = <<"validate_path_safety">>
        /\ last.result.warnings = <<>>
        /\ last.result.size_bytes = 0
        /\ last.result.is_deletable = FALSE
        /\ last.result.restoration_command = <<>>

C2_Witness ==
    /\ last.op = "validate_deletion"
    /\ last.path = "~/Documents/app/node_modules/pkg"
    /\ last.category = <<"node_modules">>
    /\ Here.protected /\ Here.deletable
    /\ last.calls = <<"validate_path_safety">>

\* C3: every result returned by validate_deletion, and every element
\* returned by validate_batch, has no errors when it is valid.
C3_ValidHasNoErrors ==
    /\ (last.op = "validate_deletion" /\ ~last.raised /\ last.result.valid)
           => last.result.errors = <<>>
    /\ (last.op = "validate_batch" /\ ~last.raised) =>
           \A i \in 1..Len(last.results) :
               last.results[i].valid => last.results[i].errors = <<>>

C3_Witness ==
    /\ last.op = "validate_batch"
    /\ ~last.raised
    /\ \E i \in 1..Len(last.results) : last.results[i].valid
    /\ \E i \in 1..Len(last.results) : ~last.results[i].valid

\* C4: validate_path_safety succeeds exactly when the path is not protected
\* and matches a deletable pattern; it fails with the protected-path
\* violation when protected and with the not-deletable failure when neither;
\* validate_deletion returns valid=false for a path matching neither set.
C4_PathSafety ==
    /\ last.op = "validate_path_safety" =>
           /\ (last.answer = "ok") <=> (~Here.protected /\ Here.deletable)
           /\ last.raised <=> (last.answer # "ok")
           /\ Here.protected => last.answer = "protected"
           /\ (~Here.protected /\ ~Here.deletable) => last.answer = "not_deletable"
    /\ (last.op = "validate_deletion" /\ ~Here.protected /\ ~Here.deletable) =>
           /\ ~last.raised
           /\ last.result.valid = FALSE
           /\ last.result.errors = <<Layer1NotDeletableError(last.path)>>

C4_Witness ==
    /\ last.op = "validate_deletion"
    /\ last.path = "/Users/vmks/random_folder"
    /\ ~Here.protected /\ ~Here.deletable
    /\ last.result.valid = FALSE

C7_GuardBlocksWhileDryRun ==
    /\ last.op = "enforce_dry_run" => (last.raised <=> dry_run)
    /\ (last.op = "execute_deletion" /\ dry_run) => ~last.deleted

\* C8: validate_batch returns one result per path, in order, the i-th being
\* what validate_deletion returns for that path alone; no path suppresses
\* the result of another.
C8_BatchIndependent ==
    last.op = "validate_batch" =>
        /\ ~last.raised
        /\ Len(last.results) = Len(last.paths)
        /\ \A i \in 1..Len(last.paths) : \E race \in BOOLEAN :
               LET alone == ValidateDeletion(symlinks, dbstat, denied, dry_run,
                                             last.paths[i], last.category, race)
               IN  ~alone.raised => last.results[i] = alone.result

\* C9: validate_deletion never raises: a result is always returned.
C9_NeverRaises ==
    last.op = "validate_deletion" => ~last.raised

\* C10: when Layer 1 passed and a non-empty category was supplied that the
\* registry does not confirm (not found, or found with is_deletable false),
\* validate_deletion returns valid=false with one Layer-2 error, is_deletable
\* false, no restoration_command, and neither the permission check nor the
\* size accounting ran; no valid result is ever returned for a supplied
\* category the registry does not confirm.
C10_Layer2Rejects ==
    (last.op = "validate_deletion" /\ Here.safety = "ok" /\ Truthy(last.category)) =>
        /\ RegistryDenies(last.category[1]) =>
               /\ ~last.raised
               /\ last.result.valid = FALSE
               /\ last.result.errors \in
                      {<<"Layer 2 failed: Category '" \o last.category[1] \o
                         "' not found in database">>,
                       <<"Layer 2 failed: Category '" \o last.category[1] \o
                         "' is marked as not deletable">>}
               /\ last.result.is_deletable = FALSE
               /\ last.result.restoration_command = <<>>
               /\ last.result.warnings = <<>>
               /\ last.result.size_bytes = 0
               /\ last.calls = <<"validate_path_safety", "_check_category_permissions">>
        /\ (~last.raised /\ last.result.valid) => RegistryConfirms(last.category[1])

C10_Witness ==
    /\ last.op = "validate_deletion"
    /\ last.path = "/Users/vmks/proj/node_modules/pkg"
    /\ last.category = <<"documents">>
    /\ dbstat = "present"
    /\ last.result.valid = FALSE
    /\ last.result.errors =
           <<"Layer 2 failed: Category 'documents' is marked as not deletable">>

\* C11: the registry is the only source of is_deletable and
\* restoration_command: in every returned result (single or of a batch)
\* is_deletable is true only if a category was supplied that the registry
\* holds with is_deletable true, restoration_command is set only to that
\* record's restoration_command, and a valid result obtained without a
\* category has is_deletable false and no restoration_command.
RegistryIsSource(result, category) ==
    /\ result.is_deletable =>
           Truthy(category) /\ RegistryConfirms(category[1])
    /\ result.restoration_command # <<>> =>
           /\ Truthy(category) /\ RegistryConfirms(category[1])
           /\ result.restoration_command = CategoryRows[category[1]].restoration_command
    /\ (result.valid /\ ~Truthy(category)) =>
           (~result.is_deletable /\ result.restoration_command = <<>>)

C11_RegistryIsOnlySource ==
    /\ (last.op = "validate_deletion" /\ ~last.raised) =>
           RegistryIsSource(last.result, last.category)
    /\ (last.op = "validate_batch" /\ ~last.raised) =>
           \A i \in 1..Len(last.results) :
               RegistryIsSource(last.results[i], last.category)

C11_Witness ==
    /\ last.op = "validate_deletion"
    /\ last.path = "/Users/vmks/proj/node_modules/pkg"
    /\ last.category = <<"node_modules">>
    /\ last.result.valid
    /\ last.result.is_deletable
    /\ last.result.restoration_command = <<"npm install">>


C13_Layer6FailsClosed ==
    (/\ last.op = "validate_deletion"
     /\ ~last.raised
     /\ \E i \in 1..Len(last.calls) : last.calls[i] = "os.access"
     /\ FsTable[<<symlinks, denied, last.path>>].access # "true") =>
        /\ ~last.result.valid
        /\ Len(last.result.errors) = 1
        /\ StartsWith(last.result.errors[1], "Layer 6 failed: ")
        /\ last.result.size_bytes = 0
        /\ \A i \in 1..Len(last.result.warnings) :
               last.result.warnings[i] # DryRunWarning
        /\ last.calls[Len(last.calls)] = "os.access"

C13_Witness ==
    /\ last.op = "validate_deletion"
    /\ last.path = "/Users/vmks/proj/build/locked"
    /\ dry_run
    /\ FsTable[<<symlinks, denied, last.path>>].access = "false"
    /\ last.result.errors =
           <<"Layer 6 failed: Cannot read path (permission denied): " \o last.path>>


\* C14: in every returned result (single or of a batch) size_bytes is not
\* negative, differs from 0 only if the result is valid and the path was a
\* regular file or a directory when the size was taken, and is 0 in every
\* result that is not valid.
SizeOnlyWhenValid(result, path) ==
    /\ result.size_bytes >= 0
    /\ result.size_bytes # 0 =>
           /\ result.valid
           /\ \/ FsTable[<<symlinks, denied, path>>].isfile
              \/ FsTable[<<symlinks, denied, path>>].isdir
    /\ ~result.valid => result.size_bytes = 0

C14_SizeOnlyWhenValid ==
    /\ (last.op = "validate_deletion" /\ ~last.raised) =>
           SizeOnlyWhenValid(last.result, last.path)
    /\ (last.op = "validate_batch" /\ ~last.raised) =>
           \A i \in 1..Len(last.results) :
               SizeOnlyWhenValid(last.results[i], last.paths[i])

C14_Witness ==
    /\ last.op = "validate_deletion"
    /\ last.path = "/Users/vmks/proj/node_modules/pkg"
    /\ last.result.valid
    /\ last.result.size_bytes = 161


\* C15: the size of a directory is the sum of the sizes of the regular
\* files under it whose size can be taken at traversal time, whatever the
\* order of the traversal and the same on every repetition in an unchanged
\* tree; a directory that cannot be listed and a file that vanishes during
\* the traversal are left out of the total, and neither stops the sum nor
\* the validation, which returns valid=true with that total and no size
\* warning.
C15_DirectorySize ==
    /\ last.op = "_calculate_directory_size" =>
           last.size = SumSizes({f \in SizeRef : f[1] \notin last.gone})
    /\ (/\ last.op = "validate_deletion" /\ ~last.raised
        /\ last.path \in DirInputs /\ last.result.valid) =>
           /\ last.result.size_bytes = SumSizes(SizeRef)
           /\ \A i \in 1..Len(last.result.warnings) :
                  ~StartsWith(last.result.warnings[i], "Could not calculate size")

C15_Witness ==
    /\ last.op = "_calculate_directory_size"
    /\ last.path = "/Users/vmks/proj/node_modules/pkg"
    /\ "proj/node_modules/pkg/lib" \in denied
    /\ last.gone = {"proj/node_modules/pkg/LICENSE"}
    /\ last.size = 120


\* C16: a returned result (single or of a batch) is valid exactly when it
\* holds no error; on a validator with dry_run=true the dry-run warning is
\* the last warning of every valid result, after the no-category, the
\* no-restoration and the size warning, and occurs once; with dry_run=false
\* no result holds it.
Finalized(result) ==
    /\ result.valid <=> result.errors = <<>>
    /\ (dry_run /\ result.valid) =>
           /\ result.warnings # <<>>
           /\ \A i \in 1..Len(result.warnings) :
                  result.warnings[i] = DryRunWarning <=> i = Len(result.warnings)
    /\ ~dry_run =>
           \A i \in 1..Len(result.warnings) : result.warnings[i] # DryRunWarning

C16_Finalize ==
    /\ (last.op = "validate_deletion" /\ ~last.raised) => Finalized(last.result)
    /\ (last.op = "validate_batch" /\ ~last.raised) =>
           \A i \in 1..Len(last.results) : Finalized(last.results[i])

C16_Witness ==
    /\ last.op = "validate_deletion"
    /\ dry_run
    /\ last.path = "/Users/vmks/proj/app.log"
    /\ last.result.valid
    /\ last.result.warnings =
           <<NoCategoryWarning, NoRestorationWarning, SizeWarning(last.path),
             DryRunWarning>>


\* C17: however the steps of concurrent validations interleave, each call
\* delivers what the same call delivers when run alone in the same
\* environment (the same exception, or the same result or list of results),
\* and no step of a validation changes the validator, the file system or
\* the registry.
C17_ConcurrentAsAlone ==
    /\ [](\A t \in Threads : threads[t].pc = "done" =>
            IF threads[t].kind = "single"
            THEN LET alone == ValidateDeletion(symlinks, dbstat, denied, dry_run,
                                  threads[t].paths[1], threads[t].category, FALSE)
                 IN  /\ threads[t].raised = alone.raised
                     /\ ~alone.raised => threads[t].results = <<alone.result>>
            ELSE LET alone == ValidateBatch(symlinks, dbstat, denied, dry_run,
                                  threads[t].paths, threads[t].category,
                                  [i \in 1..Len(threads[t].paths) |-> FALSE])
                 IN  /\ threads[t].raised = alone.raised
                     /\ ~alone.raised => threads[t].results = alone.results)
    /\ [][~AllIdle => UNCHANGED <<dry_run, require_confirmation, symlinks,
                                  dbstat, denied>>]_vars

C17_Witness ==
    /\ threads["t1"].pc = "done" /\ threads["t1"].kind = "single"
    /\ threads["t1"].results # <<>> /\ threads["t1"].results[1].valid
    /\ threads["t2"].pc = "done" /\ threads["t2"].kind = "batch"
    /\ Len(threads["t2"].results) = 2
    /\ ~threads["t2"].results[1].valid /\ threads["t2"].results[2].valid


\* C18: the containment rule of is_protected_path goes by segments: a path
\* is protected exactly when it matches a protected pattern or is the
\* literal prefix of a recursive protected pattern or lies under it; a
\* sibling that only shares a string prefix with such a prefix (/etc2/x,
\* /binary) is not protected.
C18_ContainmentBySegments ==
    (last.op = "is_protected_path" /\ ~Ref.normfailed) =>
        (last.answer = "true" <=> (Ref.matches \/ Ref.under))

\* C19: raw inputs that denote the same file get the same answers from
\* is_protected_path and is_deletable_category, and every alias of a path
\* under a protected directory is protected, also when the directory (or
\* the home directory above it) is reached through a symbolic link.
C19_NoAliasBypass ==
    (last.op \in {"is_protected_path", "is_deletable_category"}
     /\ ~Ref.normfailed) =>
        /\ \A q \in RawPaths :
               (/\ ~ReferenceTable[<<symlinks, q>>].normfailed
                /\ ReferenceTable[<<symlinks, q>>].norm = Ref.norm) =>
                   /\ Layer1Table[<<symlinks, q>>].protected = Here.protected
                   /\ Layer1Table[<<symlinks, q>>].deletable = Here.deletable
        /\ (last.op = "is_protected_path" /\ Ref.underphys) => last.answer = "true"

\* C20: the existing, readable directory <project>/node_modules itself,
\* outside every protected location, validated with category
\* "node_modules" that the registry holds as deletable with "npm install",
\* gives valid=true, is_deletable=true, restoration_command "npm install",
\* no errors and the summed size of the files under it.
C20_NodeModulesDirectory ==
    (/\ last.op = "validate_deletion"
     /\ last.path = "/Users/vmks/proj/node_modules"
     /\ last.category = <<"node_modules">>
     /\ symlinks = {}
     /\ dbstat = "present"
     /\ FsTable[<<symlinks, denied, last.path>>].access = "true") =>
        /\ ~last.raised
        /\ last.result.valid
        /\ last.result.is_deletable
        /\ last.result.restoration_command = <<"npm install">>
        /\ last.result.errors = <<>>
        /\ last.result.size_bytes = SumSizes(SizeRef)


\* C21: every path of the protected_system_paths fixture is protected:
\* is_protected_path answers true for it and validate_path_safety raises
\* ProtectedPathError, on a machine whose home directory is where its name
\* says.
C21_FixtureProtected ==
    (/\ symlinks = {}
     /\ \E i \in DOMAIN protected_system_paths :
            last.path = protected_system_paths[i]) =>
        /\ last.op = "is_protected_path" => last.answer = "true"
        /\ last.op = "validate_path_safety" => last.raised

\* C22: every path of the deletable_test_paths fixture is safe to delete
\* at Layer 1: is_protected_path answers false, is_deletable_category
\* answers true and validate_path_safety does not raise.
C22_FixtureDeletable ==
    (/\ symlinks = {}
     /\ \E i \in DOMAIN deletable_test_paths :
            last.path = deletable_test_paths[i]) =>
        /\ last.op = "is_protected_path" => last.answer = "false"
        /\ last.op = "is_deletable_category" => last.answer = "true"
        /\ last.op = "validate_path_safety" => ~last.raised


\* C23: all layers of one validate_deletion call judge the same file: when
\* Layer 6 is reached, the readability verdict and the size are those of
\* the normalised path (home-expanded, absolute, links resolved) that
\* Layer 1 classified, so an existing readable path given as "~/..." that
\* passes Layers 1 and 2 is valid and sized.
C23_SameFileAtAllLayers ==
    (/\ last.op = "validate_deletion"
     /\ ~last.raised
     /\ \E n \in 1..Len(last.calls) : last.calls[n] = "os.access"
     /\ ~Ref.normfailed
     /\ Ref.norm \in RawPaths) =>
        LET file == FsTable[<<symlinks, denied, Ref.norm>>] IN
        /\ last.result.valid <=> file.access = "true"
        /\ (/\ last.result.valid
            /\ \A n \in 1..Len(last.result.warnings) :
                   last.result.warnings[n] # SizeWarning(last.path)) =>
               last.result.size_bytes =
                   IF file.isfile THEN file.size
                   ELSE IF file.isdir THEN file.dirsize ELSE 0


\* the lookup cannot find anything: the store is absent, or the query fails
StoreUnusable == dbstat \in {"absent", "corrupt"}

CategoryNotFoundError(name) ==
    "Layer 2 failed: Category '" \o name \o "' not found in database"

\* what the same call gives with the registry in place
WithRegistry ==
    {ValidateDeletion(symlinks, "present", denied, dry_run, last.path,
                      last.category, race).result : race \in BOOLEAN}

SizeRaised ==
    /\ last.op = "validate_deletion"
    /\ last.vanished
    /\ \E n \in 1..Len(last.calls) : last.calls[n] = "os.path.getsize"

\* C25: an error raised by the size computation never blocks validation:
\* it is recorded as a warning and not as an error, size_bytes stays 0, and
\* the result is finalized with valid=true.
C25_SizeErrorIsWarning ==
    SizeRaised =>
        /\ ~last.raised
        /\ last.result.valid
        /\ last.result.errors = <<>>
        /\ last.result.size_bytes = 0
        /\ \E n \in 1..Len(last.result.warnings) :
               last.result.warnings[n] = SizeWarning(last.path)

C25_Witness ==
    /\ SizeRaised
    /\ last.path = "/Users/vmks/proj/app.log"
    /\ last.category = <<"logs">>
    /\ last.result.valid
    /\ last.result.size_bytes = 0
    /\ Len(last.result.warnings) = 3


\* gitignore-style matching as the specification words it, on the segments
\* of a pattern and of a path: "**" stands for zero or more whole
\* segments, "*" for a run of characters inside one segment, every other
\* character for itself
RECURSIVE GlobMatch(_, _, _, _)
GlobMatch(ps, i, fs, j) ==
    IF i > Len(ps) THEN j > Len(fs)
    ELSE IF ps[i] = "**"
    THEN \E k \in j..(Len(fs) + 1) : GlobMatch(ps, i + 1, fs, k)
    ELSE /\ j <= Len(fs)
         /\ SegGlob(ps[i], fs[j])
         /\ GlobMatch(ps, i + 1, fs, j + 1)

\* a normalised path matches a set when one of its patterns, "~" read as
\* the home directory, matches it
GlobMatchesSet(patterns, normalized_str) ==
    \E n \in 1..Len(patterns) :
        GlobMatch(Split(ExpandUser(patterns[n])), 1, Split(normalized_str), 1)

GlobReferenceTable ==
    [k \in LinkConfigs \X RawPaths |->
        LET n == NormalizePath(k[1], k[2]) IN
        [protected |-> n.ok /\ GlobMatchesSet(PROTECTED_PATHS, n.str),
         deletable |-> n.ok /\ GlobMatchesSet(DELETABLE_PATTERNS, n.str)]] @@ <<>>

GlobRef == GlobReferenceTable[<<symlinks, last.path>>]

\* C26: pattern matching is gitignore-style on the normalised absolute
\* path, a "~/..." pattern matching the paths under the expanded home
\* directory: is_deletable_category answers true exactly for the paths
\* that match a deletable pattern, and is_protected_path answers true for
\* every path that matches a protected pattern.
C26_GitignoreSemantics ==
    /\ (last.op = "is_deletable_category" /\ ~Ref.normfailed) =>
           (last.answer = "true" <=> GlobRef.deletable)
    /\ (last.op = "is_protected_path" /\ ~Ref.normfailed /\ GlobRef.protected) =>
           last.answer = "true"


\* the errors and the verdict of a result agree: no error and valid, or
\* one error and not valid
OneErrorOrValid(result) ==
    /\ Len(result.errors) <= 1
    /\ ~result.valid <=> Len(result.errors) = 1

\* C27: every result validate_deletion returns has at most one error, and
\* valid is false exactly when there is one: the pipeline stops at the
\* first hard error.
C27_AtMostOneError ==
    /\ (last.op = "validate_deletion" /\ ~last.raised) =>
           OneErrorOrValid(last.result)
    /\ (last.op = "validate_batch" /\ ~last.raised) =>
           \A n \in 1..Len(last.results) : OneErrorOrValid(last.results[n])

C27_Witness ==
    /\ last.op = "validate_deletion"
    /\ last.path = "/Users/vmks/proj/build/locked"
    /\ last.category = <<"documents">>
    /\ ~last.raised
    /\ ~last.result.valid
    /\ last.result.errors =
           <<"Layer 2 failed: Category 'documents' is marked as not deletable">>


\* two results agree on the verdict
SameVerdict(a, b) ==
    /\ a.valid = b.valid
    /\ a.errors = b.errors
    /\ a.size_bytes = b.size_bytes
    /\ a.is_deletable = b.is_deletable
    /\ a.restoration_command = b.restoration_command

\* the warnings without a final dry-run warning
WithoutDryRunWarning(warnings) ==
    IF warnings # <<>> /\ warnings[Len(warnings)] = DryRunWarning
    THEN SubSeq(warnings, 1, Len(warnings) - 1)
    ELSE warnings

\* what a validator with the other dry_run returns for the pending call, in
\* the same environment
OtherValidator ==
    ValidateDeletion(symlinks, dbstat, denied, ~dry_run, last.path,
                     last.category, last.vanished)

ExistsTable ==
    [k \in LinkConfigs \X RawPaths |->
        LET n == Resolve(k[1], k[2]) IN
        n.ok /\ (IsFileNode(k[1], n.str) \/ IsDirNode(k[1], n.str))] @@ <<>>

Layer6CannotReadError(path) ==
    "Layer 6 failed: Cannot read path (permission denied): " \o path

\* C29: a valid result means that the path existed and was readable when
\* Layer 6 ran: a path that passes Layers 1 and 2 but does not exist is
\* returned with valid=false, the Layer 6 "cannot read path" error and
\* size 0, never as valid.
C29_ValidMeansExisted ==
    (last.op = "validate_deletion" /\ ~last.raised) =>
        /\ last.result.valid =>
               /\ ExistsTable[<<symlinks, last.path>>]
               /\ FsTable[<<symlinks, denied, last.path>>].access = "true"
        /\ (/\ ~ExistsTable[<<symlinks, last.path>>]
            /\ \E n \in 1..Len(last.calls) : last.calls[n] = "os.access") =>
               /\ ~last.result.valid
               /\ last.result.errors = <<Layer6CannotReadError(last.path)>>
               /\ last.result.size_bytes = 0

C29_Witness ==
    /\ last.op = "validate_deletion"
    /\ last.path = "/Users/vmks/proj/build/gone"
    /\ last.category = <<"node_modules">>
    /\ ~ExistsTable[<<symlinks, last.path>>]
    /\ ~last.result.valid
    /\ last.result.is_deletable
    /\ last.result.errors = <<Layer6CannotReadError(last.path)>>


\* what the pending call returns when no category is given
WithoutCategory ==
    ValidateDeletion(symlinks, dbstat, denied, dry_run, last.path, <<>>,
                     last.vanished)

\* C30: a category given as the empty string is treated as no category:
\* the registry is not queried, the "no category specified" warning is
\* appended, is_deletable stays false, and the call goes on as the call
\* without a category does (it can end with valid=true), never failing
\* with category-not-found.
C30_EmptyCategoryIsNone ==
    (last.op = "validate_deletion" /\ last.category = <<"">>) =>
        /\ ~last.raised
        /\ \A n \in 1..Len(last.calls) :
               last.calls[n] # "_check_category_permissions"
        /\ ~last.result.is_deletable
        /\ last.result.category = <<"">>
        /\ [last.result EXCEPT !.category = <<>>] = WithoutCategory.result
        /\ last.calls = WithoutCategory.calls
        /\ Here.safety = "ok" =>
               /\ last.result.warnings # <<>>
               /\ last.result.warnings[1] = NoCategoryWarning
        /\ \A n \in 1..Len(last.result.errors) :
               last.result.errors[n] # CategoryNotFoundError("")

C30_Witness ==
    /\ last.op = "validate_deletion"
    /\ last.category = <<"">>
    /\ last.path = "/Users/vmks/proj/node_modules/pkg"
    /\ dbstat = "denied"
    /\ last.result.valid
    /\ ~last.result.is_deletable
    /\ last.result.warnings[1] = NoCategoryWarning
    /\ last.result.size_bytes = 161

====
